---- MODULE Spec2Model ----
(***************************************************************************)
(* ddos_filtering: NetFlow records are decoded (NfFlow.from_dict),         *)
(* filtered (stream_filter), folded into a CountMap                        *)
(* source network -> bucket -> packets (aggregate_flows), the per-file     *)
(* maps are reduced (merge_data) and the steady+heavy rule selects the     *)
(* allowlist (build_allowlist).                                            *)
(*                                                                         *)
(* Representation.                                                         *)
(*  - A Python dict is a function whose DOMAIN is the set of its keys.     *)
(*  - merge_data stores inner dicts by reference, so dicts live in a       *)
(*    store: `data` maps the name of an outer dict to key -> reference,    *)
(*    `heap` maps a reference to the inner dict bucket -> count.  An inner *)
(*    dict is created only by aggregate_flows, once per (outer dict, key), *)
(*    so <<name, key>> is its identity.                                    *)
(*  - An address is <<version, groups>>: four octets or eight hextets.     *)
(*  - A timestamp is a whole number of seconds since the epoch, >= 0; the  *)
(*    packet times of the multi-bucket branch are the exact quotients      *)
(*    (first*(n-1) + i*(last-first)) / (n-1), so time - (time % a) is      *)
(*    a * floor(time / a).  A JSON timestamp is the number it denotes.     *)
(*  - Outer dicts are named: Main is the dict main creates, i the dict     *)
(*    process_netflow_file creates for file i, "A", "B", ... the           *)
(*    arguments of merge_data taken on its own.                            *)
(*                                                                         *)
(* Specifications.                                                         *)
(*    Spec       process_netflow_file on one file, every decoder object    *)
(*    SpecMerge  merge_data on drawn CountMaps, both orders and nestings   *)
(*    SpecAllow  build_allowlist on drawn CountMaps and configurations     *)
(*    SpecMain   main: two files, the merge loop and build_allowlist       *)
(*    SpecPool   the pool on drawn file contents, tasks ending in any      *)
(*               order, and the merge loop                                 *)
(*    SpecCli    main from parse_args to the output, with the decoder's    *)
(*               exit status and output that ends early                    *)
(*    SpecFilter stream_filter on drawn streams and protected prefixes     *)
(*    SpecDecode NfFlow.from_dict on every combination of optional fields  *)
(*    SpecParams build_allowlist called again with one parameter changed   *)
(*    SpecStream stream_read_json on the bytes of a decoder output         *)
(*    SpecFold   three files of drawn records, each task as one step,      *)
(*               and the merge loop over their maps                        *)
(***************************************************************************)
EXTENDS Integers, Sequences, FiniteSets, TLC

VARIABLES
    config,     \* the Configuration, immutable after load
    data,       \* outer dicts: name -> (source key -> reference)
    heap,       \* inner dicts: reference -> (bucket -> count)
    flow,       \* per worker: the record in flight (loop variable `flow`), or NoFlow
    pc,         \* per worker: position in process_netflow_file
    exc,        \* per worker: the exception that ended it, or None
    nread,      \* per worker: number of objects read from the decoder so far
    mpc,        \* position of the main program
    mdata,      \* the dict main's variable `data` is bound to
    args,       \* the argument values a run started from
    ret,        \* values returned by the calls made so far
    stream,     \* stream_read_json: the pipe, the unprocessed chunk, the records yielded
    tasks       \* the pool tasks whose result has arrived, in order of arrival

vars == <<config, data, heap, flow, pc, exc, nread, mpc, mdata, args, ret,
          stream, tasks>>

None == "None"      \* exc: no exception
NoFlow == [x \in {} |-> 0]  \* flow: no record yet
Main == 0           \* name of the dict main creates (data = {}); file i's is i

(***************************************************************************)
(* Bounds of the model                                                     *)
(***************************************************************************)
MaxTime == 3        \* timestamps range over 0..MaxTime
MaxPackets == 3     \* in_packets ranges over 0..MaxPackets
MaxFlows == 2       \* objects read from one file
MaxTotal == 2       \* packets held by a CountMap given to merge_data
MaxNow == 7         \* the reference time ranges over 0..MaxNow
ChunkSize == 4      \* bytes asked of the pipe per read (256 in the code)
MaxRecords == 3     \* records dealt into the files of a partition

(***************************************************************************)
(* Python dict primitives                                                  *)
(***************************************************************************)
EmptyDict == [x \in {} |-> 0]

DictGet(d, k, default) == IF k \in DOMAIN d THEN d[k] ELSE default

DictSet(d, k, v) == [x \in (DOMAIN d) \cup {k} |-> IF x = k THEN v ELSE d[x]]

(***************************************************************************)
(* ipaddress: network_address of (addr, prefixlen) with strict=False, and  *)
(* `addr in net`                                                           *)
(***************************************************************************)
RECURSIVE Pow2(_)
Pow2(n) == IF n <= 0 THEN 1 ELSE 2 * Pow2(n - 1)

GroupBits(version) == IF version = 4 THEN 8 ELSE 16

Clamp(x, lo, hi) == IF x < lo THEN lo ELSE IF x > hi THEN hi ELSE x

network_address(addr, prefixlen) ==
    LET gb == GroupBits(addr[1])
        groups == addr[2]
    IN  <<addr[1],
          [j \in 1..Len(groups) |->
              LET keep == Clamp(prefixlen - gb * (j - 1), 0, gb)
              IN  groups[j] - (groups[j] % Pow2(gb - keep))]>>

AddrInNet(addr, net) ==
    /\ addr[1] = net.addr[1]
    /\ network_address(addr, net.prefixlen) = net.addr

(***************************************************************************)
(* Configuration (dataclass defaults)                                      *)
(***************************************************************************)
DefaultDestinations ==
    { [addr |-> <<4, <<0, 0, 0, 0>>>>, prefixlen |-> 0],
      [addr |-> <<6, <<0, 0, 0, 0, 0, 0, 0, 0>>>>, prefixlen |-> 0] }

Configuration(agg, w_train, steady, heavy) ==
    [ destination_addresses |-> DefaultDestinations,
      aggregation_time |-> agg,
      ipv4_aggregation |-> 24,
      ipv6_aggregation |-> 48,
      param_w_train |-> w_train,
      param_steady |-> steady,
      param_heavy |-> heavy ]

(***************************************************************************)
(* NfFlow.from_dict                                                        *)
(***************************************************************************)
\* d.get(k, None) is None: the key is absent (or null)
IsNone(d, k) == k \notin DOMAIN d

NfFlow(in_packets, dst_port, first, last, src_addr, dst_addr) ==
    [ in_packets |-> in_packets, dst_port |-> dst_port,
      first |-> first, last |-> last,
      src_addr |-> src_addr, dst_addr |-> dst_addr ]

Raise(e) == [exc |-> e, flow |-> NoFlow]

from_dict(d) ==
    IF "in_packets" \notin DOMAIN d \/ "dst_port" \notin DOMAIN d
    THEN Raise("KeyError")
    ELSE IF IsNone(d, "first") /\ IsNone(d, "t_first")
    THEN Raise("ValueError")
    ELSE IF IsNone(d, "last") /\ IsNone(d, "t_last")
    THEN Raise("ValueError")
    ELSE IF IsNone(d, "src4_addr") /\ IsNone(d, "src6_addr")
    THEN Raise("ValueError")
    ELSE IF IsNone(d, "dst4_addr") /\ IsNone(d, "dst6_addr")
    THEN Raise("ValueError")
    ELSE
    LET first == IF IsNone(d, "first") THEN d["t_first"] ELSE d["first"]
        last == IF IsNone(d, "last") THEN d["t_last"] ELSE d["last"]
        src_addr == IF IsNone(d, "src4_addr") THEN d["src6_addr"] ELSE d["src4_addr"]
        dst_addr == IF IsNone(d, "dst4_addr") THEN d["dst6_addr"] ELSE d["dst4_addr"]
    IN  [ exc |-> None,
          flow |-> NfFlow(d["in_packets"], d["dst_port"], first, last,
                          src_addr, dst_addr) ]

(***************************************************************************)
(* stream_filter                                                           *)
(***************************************************************************)
\* stream_filter without the test of the port
stream_filter_any_port(f, cfg) ==
    \E net \in cfg.destination_addresses : AddrInNet(f.dst_addr, net)

stream_filter(f, cfg) ==
    /\ f.dst_port = 53
    /\ \E net \in cfg.destination_addresses : AddrInNet(f.dst_addr, net)

(***************************************************************************)
(* aggregate_flows                                                         *)
(***************************************************************************)
SourceKey(f, cfg) ==
    IF f.src_addr[1] = 4
    THEN network_address(f.src_addr, cfg.ipv4_aggregation)
    ELSE network_address(f.src_addr, cfg.ipv6_aggregation)

\* int(t) - (int(t) % aggregation_time)
Bucket(t, cfg) == t - (t % cfg.aggregation_time)

\* the bucket of packet i taken as int(time), without the alignment
PacketBucketUnaligned(f, cfg, i) ==
    LET den == f.in_packets - 1
        num == f.first * den + i * (f.last - f.first)
    IN  num \div den

\* bucket of packet i: int(time - (time % aggregation_time)) with
\* time = first + i * ((last - first) / (in_packets - 1))
PacketBucket(f, cfg, i) ==
    LET den == f.in_packets - 1
        num == f.first * den + i * (f.last - f.first)
    IN  (num \div (den * cfg.aggregation_time)) * cfg.aggregation_time

\* for i in range(in_packets): data[src][bucket] = data[src].get(bucket, 0) + 1
RECURSIVE PacketLoop(_, _, _, _)
PacketLoop(d, f, cfg, i) ==
    IF i >= f.in_packets THEN d
    ELSE LET b == PacketBucket(f, cfg, i)
         IN  PacketLoop(DictSet(d, b, DictGet(d, b, 0) + 1), f, cfg, i + 1)

\* aggregate_flows with the single-bucket branch storing in_packets instead
\* of adding it to the bucket
aggregate_flows_overwrite(st, name, cfg, f) ==
    LET src == SourceKey(f, cfg)
        first_bucket == Bucket(f.first, cfg)
        last_bucket == Bucket(f.last, cfg)
        st1 == IF src \notin DOMAIN st.data[name]
               THEN [ data |-> [st.data EXCEPT ![name] = DictSet(@, src, <<name, src>>)],
                      heap |-> DictSet(st.heap, <<name, src>>, EmptyDict) ]
               ELSE st
        ref == st1.data[name][src]
    IN  IF first_bucket = last_bucket
        THEN [ exc |-> None,
               st |-> [st1 EXCEPT !.heap[ref] = DictSet(@, first_bucket, f.in_packets)] ]
        ELSE IF f.in_packets - 1 = 0
        THEN [ exc |-> "ZeroDivisionError", st |-> st1 ]
        ELSE [ exc |-> None,
               st |-> [st1 EXCEPT !.heap[ref] = PacketLoop(@, f, cfg, 0)] ]

aggregate_flows(st, name, cfg, f) ==
    LET src == SourceKey(f, cfg)
        first_bucket == Bucket(f.first, cfg)
        last_bucket == Bucket(f.last, cfg)
        st1 == IF src \notin DOMAIN st.data[name]
               THEN [ data |-> [st.data EXCEPT ![name] = DictSet(@, src, <<name, src>>)],
                      heap |-> DictSet(st.heap, <<name, src>>, EmptyDict) ]
               ELSE st
        ref == st1.data[name][src]
    IN  IF first_bucket = last_bucket
        THEN [ exc |-> None,
               st |-> [st1 EXCEPT !.heap[ref] =
                          DictSet(@, first_bucket,
                                  DictGet(@, first_bucket, 0) + f.in_packets)] ]
        ELSE IF f.in_packets - 1 = 0
        THEN [ exc |-> "ZeroDivisionError", st |-> st1 ]
        ELSE [ exc |-> None,
               st |-> [st1 EXCEPT !.heap[ref] = PacketLoop(@, f, cfg, 0)] ]

\* the CountMap an outer dict denotes: key -> bucket -> count
CountMapOf(dat, hp, name) == [k \in DOMAIN dat[name] |-> hp[dat[name][k]]]

CountMap(name) == CountMapOf(data, heap, name)

(***************************************************************************)
(* merge_data                                                              *)
(***************************************************************************)
\* the inner loop storing count instead of adding it to the bucket
MergeBucketsOverwrite(into, from) ==
    [t \in (DOMAIN into) \cup (DOMAIN from) |->
        IF t \in DOMAIN from THEN from[t] ELSE into[t]]

\* for time, count in data.items():
\*     data_a[src][time] = data_a[src].get(time, 0) + count
\* on the inner dicts `into` (data_a[src]) and `from` (data); each time is
\* read and written once, also when both are the same object
MergeBuckets(into, from) ==
    [t \in (DOMAIN into) \cup (DOMAIN from) |->
        IF t \in DOMAIN from THEN DictGet(into, t, 0) + from[t] ELSE into[t]]

\* the outer loop without its `continue`: a dict moved into data_a is then
\* added to itself
RECURSIVE MergeLoopNoContinue(_, _, _, _)
MergeLoopNoContinue(st, a, b, keys) ==
    IF keys = {} THEN st
    ELSE LET src_addr == CHOOSE k \in keys : TRUE
             ref == st.data[b][src_addr]
             st1 == IF src_addr \notin DOMAIN st.data[a]
                    THEN [st EXCEPT !.data[a] = DictSet(@, src_addr, ref)]
                    ELSE st
             st2 == [st1 EXCEPT !.heap[st1.data[a][src_addr]] =
                                    MergeBuckets(@, st1.heap[ref])]
         IN  MergeLoopNoContinue(st2, a, b, keys \ {src_addr})

\* for src_addr, data in data_b.items(): ...   (keys: those not yet visited)
RECURSIVE MergeLoop(_, _, _, _)
MergeLoop(st, a, b, keys) ==
    IF keys = {} THEN st
    ELSE LET src_addr == CHOOSE k \in keys : TRUE
             ref == st.data[b][src_addr]
             st1 == IF src_addr \notin DOMAIN st.data[a]
                    THEN [st EXCEPT !.data[a] = DictSet(@, src_addr, ref)]
                    ELSE [st EXCEPT !.heap[st.data[a][src_addr]] =
                                        MergeBuckets(@, st.heap[ref])]
         IN  MergeLoop(st1, a, b, keys \ {src_addr})

\* returns the store after the call and the name of the dict returned
merge_data(st, data_a, data_b) ==
    LET swap == Cardinality(DOMAIN st.data[data_a]) > Cardinality(DOMAIN st.data[data_b])
        a == IF swap THEN data_b ELSE data_a
        b == IF swap THEN data_a ELSE data_b
    IN  [ st |-> MergeLoop(st, a, b, DOMAIN st.data[b]), ret |-> a ]

(***************************************************************************)
(* build_allowlist                                                         *)
(***************************************************************************)
Max(S) == CHOOSE x \in S : \A y \in S : y <= x

\* valid_traffic without the test earliest_time <= time
ValidTimesNoLowerBound(buckets, earliest_time, now) ==
    { time \in DOMAIN buckets : time < now }

\* the times of the entries of valid_traffic for one ip
ValidTimes(buckets, earliest_time, now) ==
    { time \in DOMAIN buckets : earliest_time <= time /\ time < now }

\* build_allowlist with the comparison of the heavy test turned around
build_allowlist_light(m, cfg, now) ==
    LET now_bucket == now - (now % cfg.aggregation_time)
        earliest_time == now_bucket - cfg.aggregation_time * cfg.param_w_train
        valid(ip) == ValidTimes(m[ip], earliest_time, now)
        passed_steady == { ip \in DOMAIN m : ~(Cardinality(valid(ip)) < cfg.param_steady) }
        peak(ip) == Max({ m[ip][t] : t \in valid(ip) })
    IN  IF \E ip \in passed_steady : valid(ip) = {}
        THEN [ exc |-> "ValueError", allowlist |-> EmptyDict ]
        ELSE [ exc |-> None,
               allowlist |-> [ip \in { i \in passed_steady : ~(peak(i) > cfg.param_heavy) }
                                |-> peak(ip)] ]

\* m is the CountMap passed as `data`; max([]) raises ValueError
build_allowlist(m, cfg, now) ==
    LET now_bucket == now - (now % cfg.aggregation_time)
        earliest_time == now_bucket - cfg.aggregation_time * cfg.param_w_train
        valid(ip) == ValidTimes(m[ip], earliest_time, now)
        passed_steady == { ip \in DOMAIN m : ~(Cardinality(valid(ip)) < cfg.param_steady) }
        peak(ip) == Max({ m[ip][t] : t \in valid(ip) })
    IN  IF \E ip \in passed_steady : valid(ip) = {}
        THEN [ exc |-> "ValueError", allowlist |-> EmptyDict ]
        ELSE [ exc |-> None,
               allowlist |-> [ip \in { i \in passed_steady : ~(peak(i) < cfg.param_heavy) }
                                |-> peak(ip)] ]

(***************************************************************************)
(* process_netflow_file on one file: the decoder's objects are read one    *)
(* at a time, decoded, filtered and aggregated into the worker's dict.     *)
(***************************************************************************)
Times == 0..MaxTime

V4a == <<4, <<10, 0, 0, 7>>>>
V4b == <<4, <<10, 0, 0, 200>>>>
V6a == <<6, <<8193, 3512, 1, 2, 0, 0, 0, 9>>>>
Dst4 == <<4, <<203, 0, 113, 1>>>>
Dst6 == <<6, <<8193, 3512, 0, 0, 0, 0, 0, 1>>>>

AddrFields ==
    { [src4_addr |-> V4a, dst4_addr |-> Dst4],
      [src6_addr |-> V6a, dst6_addr |-> Dst6] }

\* The JSON objects the decoder subprocess may emit: DNS records with every
\* combination of timestamps, packet count and source; and, for one choice
\* of the values, a second address of the same /24, the other naming
\* convention, another port, and objects that lack a timestamp or an address.
DnsObjects ==
    { [first |-> f, last |-> l] @@ a @@ [in_packets |-> n, dst_port |-> 53] :
        f \in Times, l \in Times, a \in AddrFields, n \in 0..MaxPackets }

OtherObjects ==
    LET base == [in_packets |-> 2, dst_port |-> 53]
        addr == [src4_addr |-> V4a, dst4_addr |-> Dst4]
    IN  { [first |-> 0, last |-> 0] @@ [src4_addr |-> V4b, dst4_addr |-> Dst4] @@ base,
          [t_first |-> 0, t_last |-> MaxTime] @@ addr @@ base,
          [first |-> 0, last |-> 1] @@ addr @@ [in_packets |-> 2, dst_port |-> 443],
          [first |-> 0] @@ addr @@ base,
          [last |-> 0] @@ addr @@ base,
          [first |-> 0, last |-> 1] @@ [src4_addr |-> V4a] @@ base,
          [first |-> 0, last |-> 1] @@ [dst6_addr |-> Dst6] @@ base }

JsonObjects == DnsObjects \cup OtherObjects

WorkerConfigs == { Configuration(2, 1, 1, 1) }

Workers == DOMAIN pc

Init ==
    /\ config \in WorkerConfigs
    /\ data = [w \in {1} |-> EmptyDict]
    /\ heap = EmptyDict
    /\ flow = [w \in {1} |-> NoFlow]
    /\ pc = [w \in {1} |-> "read"]
    /\ exc = [w \in {1} |-> None]
    /\ nread = [w \in {1} |-> 0]
    /\ mpc = "pool"
    /\ mdata = Main
    /\ args = EmptyDict
    /\ ret = EmptyDict
    /\ stream = EmptyDict
    /\ tasks = <<>>

\* `for flow in g`: stream_read_json decodes the next object with
\* NfFlow.from_dict, stream_filter drops it or yields it to the loop
ReadObject(w, d) ==
    /\ pc[w] = "read"
    /\ nread[w] < MaxFlows
    /\ nread' = [nread EXCEPT ![w] = @ + 1]
    /\ LET r == from_dict(d)
       IN  IF r.exc # None
           THEN /\ exc' = [exc EXCEPT ![w] = r.exc]
                /\ pc' = [pc EXCEPT ![w] = "raised"]
                /\ UNCHANGED flow
           ELSE IF stream_filter(r.flow, config)
           THEN /\ flow' = [flow EXCEPT ![w] = r.flow]
                /\ pc' = [pc EXCEPT ![w] = "aggregate"]
                /\ UNCHANGED exc
           ELSE UNCHANGED <<flow, pc, exc>>
    /\ UNCHANGED <<config, data, heap, mpc, mdata, args, ret,
                 stream, tasks>>

\* the loop body: aggregate_flows(data, config, flow)
AggregateFlow(w) ==
    /\ pc[w] = "aggregate"
    /\ LET r == aggregate_flows([data |-> data, heap |-> heap], w, config, flow[w])
       IN  /\ data' = r.st.data
           /\ heap' = r.st.heap
           /\ exc' = [exc EXCEPT ![w] = r.exc]
           /\ pc' = [pc EXCEPT ![w] = IF r.exc = None THEN "read" ELSE "raised"]
    /\ UNCHANGED <<config, flow, nread, mpc, mdata, args, ret,
                 stream, tasks>>

\* the line starting with "]": the generator ends and data is returned
EndOfStream(w) ==
    /\ pc[w] = "read"
    /\ pc' = [pc EXCEPT ![w] = "done"]
    /\ UNCHANGED <<config, data, heap, flow, exc, nread, mpc, mdata, args, ret,
                 stream, tasks>>

Next ==
    \/ \E w \in Workers, d \in JsonObjects : ReadObject(w, d)
    \/ \E w \in Workers : AggregateFlow(w)
    \/ \E w \in Workers : EndOfStream(w)

Spec == Init /\ [][Next]_vars

(***************************************************************************)
(* Properties of the aggregator                                            *)
(***************************************************************************)
RECURSIVE DictSum(_)
DictSum(d) ==
    IF DOMAIN d = {} THEN 0
    ELSE LET k == CHOOSE x \in DOMAIN d : TRUE
         IN  d[k] + DictSum([x \in (DOMAIN d) \ {k} |-> d[x]])

\* the step of worker w from this state is its call of aggregate_flows
AggregateStep(w) == pc[w] = "aggregate" /\ pc'[w] # "aggregate"

SameBucket(f, cfg) ==
    f.first - (f.first % cfg.aggregation_time) = f.last - (f.last % cfg.aggregation_time)

\* C3: every call of aggregate_flows completes, and the counts of the
\* record's source key, summed over all buckets, grow by exactly in_packets.
C3_CountConservation ==
    [][\A w \in Workers : AggregateStep(w) =>
         LET src == SourceKey(flow[w], config)
             old == DictGet(CountMap(w), src, EmptyDict)
         IN  /\ exc'[w] = None
             /\ DictSum(CountMapOf(data', heap', w)[src]) - DictSum(old)
                    = flow[w].in_packets]_vars

\* C4: a record whose first and last fall in one bucket adds in_packets to
\* (masked source, bucket(first)) and changes no other bucket of that source
\* and no other source key.
C4_SingleBucketEffect ==
    [][\A w \in Workers : (AggregateStep(w) /\ SameBucket(flow[w], config)) =>
         LET f == flow[w]
             src == SourceKey(f, config)
             b == f.first - (f.first % config.aggregation_time)
             old == CountMap(w)
             new == CountMapOf(data', heap', w)
             oldsrc == DictGet(old, src, EmptyDict)
         IN  /\ exc'[w] = None
             /\ DOMAIN new = (DOMAIN old) \cup {src}
             /\ \A k \in (DOMAIN old) \ {src} : new[k] = old[k]
             /\ DOMAIN new[src] = (DOMAIN oldsrc) \cup {b}
             /\ new[src][b] = DictGet(oldsrc, b, 0) + f.in_packets
             /\ \A t \in (DOMAIN oldsrc) \ {b} : new[src][t] = oldsrc[t]
             /\ \A v \in (DOMAIN data) \ {w} :
                    CountMapOf(data', heap', v) = CountMap(v)]_vars

\* C4 witness: a single-bucket record was aggregated into a map in which its
\* source already held that bucket and another one.
C4_Witness ==
    \E w \in Workers :
        /\ pc[w] = "read" /\ flow[w] # NoFlow /\ exc[w] = None
        /\ SameBucket(flow[w], config)
        /\ flow[w].in_packets >= 2
        /\ LET buckets == CountMap(w)[SourceKey(flow[w], config)]
           IN  /\ Cardinality(DOMAIN buckets) >= 2
               /\ buckets[flow[w].first - (flow[w].first % config.aggregation_time)]
                     > flow[w].in_packets

\* C5: a record with in_packets = 1 always takes the single-bucket branch, so
\* aggregate_flows never divides by in_packets - 1 = 0.
C5_OnePacketSingleBucket ==
    \A w \in Workers :
        /\ (pc[w] = "aggregate" /\ flow[w].in_packets = 1)
              => SameBucket(flow[w], config)
        /\ exc[w] # "ZeroDivisionError"

\* C6: the decoder rejects a record whose last timestamp is before its first,
\* so aggregate_flows is never called with last < first.
C6_LastNotBeforeFirst ==
    \A w \in Workers : pc[w] = "aggregate" => flow[w].last >= flow[w].first

\* C8: as long as no call raised, every stored count is >= 1 and no source
\* key maps to an empty inner dict.
C8_CountsPositive ==
    (\A w \in Workers : exc[w] = None) =>
        \A name \in DOMAIN data : \A k \in DOMAIN data[name] :
            LET buckets == heap[data[name][k]]
            IN  /\ DOMAIN buckets # {}
                /\ \A t \in DOMAIN buckets : buckets[t] >= 1

\* C21: a record with in_packets >= 2 whose first and last fall in different
\* buckets makes aggregate_flows add in_packets single credits to the buckets
\* of its source key: at least one to bucket(first), at least one to
\* bucket(last), none to a bucket below bucket(first) or above bucket(last);
\* with in_packets = 2 these two buckets get exactly 1 each.
C21_SpreadAcrossBuckets ==
    [][\A w \in Workers :
         (AggregateStep(w) /\ flow[w].in_packets >= 2
                           /\ ~SameBucket(flow[w], config)) =>
         LET f == flow[w]
             src == SourceKey(f, config)
             bf == f.first - (f.first % config.aggregation_time)
             bl == f.last - (f.last % config.aggregation_time)
             old == DictGet(CountMap(w), src, EmptyDict)
             new == CountMapOf(data', heap', w)[src]
             credit == [t \in DOMAIN new |-> new[t] - DictGet(old, t, 0)]
         IN  /\ exc'[w] = None
             /\ DOMAIN old \subseteq DOMAIN new
             /\ \A t \in DOMAIN new : credit[t] >= 0
             /\ DictSum(credit) = f.in_packets
             /\ credit[bf] >= 1
             /\ credit[bl] >= 1
             /\ \A t \in DOMAIN new : credit[t] > 0 => (bf <= t /\ t <= bl)
             /\ f.in_packets = 2 => (credit[bf] = 1 /\ credit[bl] = 1)]_vars

(***************************************************************************)
(* merge_data as the reduce step: CountMaps A, B and C are drawn, and      *)
(* merge_data is called on fresh copies of them (each call mutates and     *)
(* returns one of its arguments):                                          *)
(*    ab   = merge_data(A, B)      ba   = merge_data(B3, A3)               *)
(*    ab_c = merge_data(ab, C)                                             *)
(*    bc   = merge_data(B2, C2)    a_bc = merge_data(A2, bc)               *)
(***************************************************************************)
MergeKeys == { network_address(V4a, 24), network_address(V6a, 48) }

MergeTimes == {0, 2}

InnerDicts ==
    UNION { [ts -> 1..MaxTotal] : ts \in (SUBSET MergeTimes) \ {{}} }

RECURSIVE MapTotal(_)
MapTotal(m) ==
    IF DOMAIN m = {} THEN 0
    ELSE LET k == CHOOSE x \in DOMAIN m : TRUE
         IN  DictSum(m[k]) + MapTotal([x \in (DOMAIN m) \ {k} |-> m[x]])

\* CountMaps with aligned buckets, counts >= 1 and at most MaxTotal packets
CountMaps ==
    { m \in UNION { [ks -> InnerDicts] : ks \in SUBSET MergeKeys } :
        MapTotal(m) <= MaxTotal }

\* the store holding a dict named n with the value vals[n], for each n
StoreOf(vals) ==
    [ data |-> [n \in DOMAIN vals |-> [k \in DOMAIN vals[n] |-> <<n, k>>]],
      heap |-> [r \in UNION { {<<n, k>> : k \in DOMAIN vals[n]} : n \in DOMAIN vals }
                  |-> vals[r[1]][r[2]]] ]

\* the argument a named dict is a copy of
CopyOf(n) ==
    IF n \in {"A", "A2", "A3"} THEN "A"
    ELSE IF n \in {"B", "B2", "B3"} THEN "B"
    ELSE "C"

InitMerge ==
    /\ config = Configuration(2, 1, 1, 1)
    /\ args \in [{"A", "B", "C"} -> CountMaps]
    /\ LET st == StoreOf([n \in {"A", "B", "C", "A2", "B2", "C2", "A3", "B3"} |->
                             args[CopyOf(n)]])
       IN  data = st.data /\ heap = st.heap
    /\ flow = EmptyDict /\ pc = EmptyDict /\ exc = EmptyDict /\ nread = EmptyDict
    /\ mpc = "ab"
    /\ mdata = Main
    /\ ret = EmptyDict
    /\ stream = EmptyDict
    /\ tasks = <<>>

\* label = merge_data(x, y), then continue at `next`
MergeCall(label, x, y, next) ==
    /\ LET r == merge_data([data |-> data, heap |-> heap], x, y)
       IN  /\ data' = r.st.data
           /\ heap' = r.st.heap
           /\ ret' = DictSet(ret, label, r.ret)
    /\ mpc' = next
    /\ UNCHANGED <<config, flow, pc, exc, nread, mdata, args,
                 stream, tasks>>

MergeAB == mpc = "ab" /\ MergeCall("ab", "A", "B", "ba")
MergeBA == mpc = "ba" /\ MergeCall("ba", "B3", "A3", "ab_c")
MergeAB_C == mpc = "ab_c" /\ MergeCall("ab_c", ret["ab"], "C", "bc")
MergeBC == mpc = "bc" /\ MergeCall("bc", "B2", "C2", "a_bc")
MergeA_BC == mpc = "a_bc" /\ MergeCall("a_bc", "A2", ret["bc"], "done")

NextMerge == MergeAB \/ MergeBA \/ MergeAB_C \/ MergeBC \/ MergeA_BC

SpecMerge == InitMerge /\ [][NextMerge]_vars

\* C9: merge_data(A, B) and merge_data(B, A) return maps with the same
\* source keys, the same buckets per source and the same counts.
C9_MergeCommutative ==
    mpc = "ab_c" => CountMap(ret["ab"]) = CountMap(ret["ba"])

\* C9 witness: both calls returned, for an A with more source keys than B
\* (merge_data swaps its arguments) that shares a source and a bucket with B.
C9_Witness ==
    /\ mpc = "ab_c"
    /\ Cardinality(DOMAIN args["A"]) > Cardinality(DOMAIN args["B"])
    /\ \E k \in (DOMAIN args["A"]) \cap (DOMAIN args["B"]) :
          (DOMAIN args["A"][k]) \cap (DOMAIN args["B"][k]) # {}

\* C10: merge_data(merge_data(A, B), C) equals merge_data(A, merge_data(B, C))
\* key- and count-wise.
C10_MergeAssociative ==
    mpc = "done" => CountMap(ret["ab_c"]) = CountMap(ret["a_bc"])

\* C10 witness: all three maps are non-empty, and the left result holds an
\* inner dict that merge_data(A, B) moved by reference from its other
\* argument and that the second call then changed in place.
C10_Witness ==
    /\ mpc = "done"
    /\ \E k \in DOMAIN data[ret["ab_c"]] :
          LET ref == data[ret["ab_c"]][k]
          IN  /\ ref[1] \in {"A", "B"}
              /\ ref[1] # ret["ab"]
              /\ heap[ref] # args[ref[1]][k]
    /\ \A n \in DOMAIN args : DOMAIN args[n] # {}

(***************************************************************************)
(* build_allowlist on a merged CountMap: the map and the configuration are *)
(* drawn, and main calls build_allowlist(data, config, now).               *)
(***************************************************************************)
AllowTimes == {0, 2, 4}

AllowInner(times) ==
    UNION { [ts -> 1..MaxPackets] : ts \in (SUBSET times) \ {{}} }

\* CountMaps over two sources: any buckets for the first, one for the second
AllowMaps ==
    LET k1 == network_address(V4a, 24)
        k2 == network_address(V6a, 48)
        one == UNION { AllowInner({t}) : t \in AllowTimes }
    IN  {EmptyDict}
          \cup { [k \in {k1} |-> d] : d \in AllowInner(AllowTimes) }
          \cup { [k \in {k2} |-> d] : d \in one }
          \cup { [k \in {k1, k2} |-> IF k = k1 THEN d[1] ELSE d[2]] :
                    d \in AllowInner(AllowTimes) \X one }

AllowConfigs ==
    { Configuration(2, w, s, h) : w \in {1, 2}, s \in {1, 2}, h \in {1, 2, 3} }

InitAllow ==
    /\ config \in AllowConfigs
    /\ args \in [{Main} -> AllowMaps]
    /\ LET st == StoreOf(args)
       IN  data = st.data /\ heap = st.heap
    /\ flow = EmptyDict /\ pc = EmptyDict /\ exc = EmptyDict /\ nread = EmptyDict
    /\ mpc = "allowlist"
    /\ mdata = Main
    /\ ret = EmptyDict
    /\ stream = EmptyDict
    /\ tasks = <<>>

\* allowlist = build_allowlist(data, config, optional_datetime(args.now).timestamp())
BuildAllowlist(now) ==
    /\ mpc = "allowlist"
    /\ LET r == build_allowlist(CountMap(mdata), config, now)
       IN  /\ ret' = [now |-> now, exc |-> r.exc, allowlist |-> r.allowlist]
           /\ mpc' = IF r.exc = None THEN "output" ELSE "raised"
    /\ UNCHANGED <<config, data, heap, flow, pc, exc, nread, mdata, args,
                 stream, tasks>>

NextAllow == \E now \in 0..MaxNow : BuildAllowlist(now)

SpecAllow == InitAllow /\ [][NextAllow]_vars

\* the buckets of `buckets` in the half-open training window
\* [now_bucket - aggregation_time * param_w_train, now_bucket)
InWindow(buckets, cfg, now) ==
    LET now_bucket == now - (now % cfg.aggregation_time)
    IN  { b \in DOMAIN buckets :
            /\ now_bucket - cfg.aggregation_time * cfg.param_w_train <= b
            /\ b < now_bucket }

\* C1: every source key of the allowlist has at least param_steady buckets in
\* [now_bucket - aggregation_time*param_w_train, now_bucket), and the largest
\* count over those buckets is at least param_heavy.
C1_AllowlistSteadyHeavy ==
    mpc = "output" =>
        \A ip \in DOMAIN ret.allowlist :
            LET m == CountMap(mdata)
                w == InWindow(m[ip], config, ret.now)
            IN  /\ Cardinality(w) >= config.param_steady
                /\ \E b \in w : m[ip][b] >= config.param_heavy

\* m without the bucket t
WithoutBucket(m, t) ==
    LET cut == [ip \in DOMAIN m |-> [b \in (DOMAIN m[ip]) \ {t} |-> m[ip][b]]]
    IN  [ip \in { i \in DOMAIN cut : DOMAIN cut[i] # {} } |-> cut[ip]]

\* C2: the bucket at now_bucket counts neither toward steady nor toward the
\* peak (the allowlist is the one of the map without that bucket), and the
\* bucket at now_bucket - aggregation_time counts toward both.
C2_WindowEnds ==
    mpc = "output" =>
        LET m == CountMap(mdata)
            now_bucket == ret.now - (ret.now % config.aggregation_time)
            prev == now_bucket - config.aggregation_time
        IN  /\ ret.allowlist = build_allowlist(WithoutBucket(m, now_bucket),
                                               config, ret.now).allowlist
            /\ \A ip \in DOMAIN m :
                  ( /\ config.param_w_train >= 1
                    /\ config.param_steady <= 1
                    /\ prev \in DOMAIN m[ip]
                    /\ m[ip][prev] >= config.param_heavy )
                  => ( ip \in DOMAIN ret.allowlist /\ ret.allowlist[ip] >= m[ip][prev] )

\* C20: for a reference time that is a multiple of aggregation_time,
\* build_allowlist returns, a source is listed if and only if it has at least
\* param_steady buckets b with now - aggregation_time*param_w_train <= b < now
\* and the largest count over those buckets is at least param_heavy, and its
\* entry is that largest count: buckets outside the window count for nothing.
C20_AlignedWindowRule ==
    (mpc # "allowlist" /\ ret.now % config.aggregation_time = 0) =>
        /\ mpc = "output"
        /\ DOMAIN ret.allowlist \subseteq DOMAIN CountMap(mdata)
        /\ \A ip \in DOMAIN CountMap(mdata) :
              LET buckets == CountMap(mdata)[ip]
                  lower == ret.now - config.aggregation_time * config.param_w_train
                  window == { b \in DOMAIN buckets : lower <= b /\ b < ret.now }
                  listed == /\ Cardinality(window) >= config.param_steady
                            /\ \E b \in window : buckets[b] >= config.param_heavy
              IN  /\ ip \in DOMAIN ret.allowlist <=> listed
                  /\ listed =>
                        /\ \E b \in window : ret.allowlist[ip] = buckets[b]
                        /\ \A b \in window : buckets[b] <= ret.allowlist[ip]

\* C20 witness: a listed source whose entry is smaller than the count it
\* holds in a bucket below the window, for an aligned reference time.
C20_Witness ==
    /\ mpc = "output"
    /\ ret.now % config.aggregation_time = 0
    /\ \E ip \in DOMAIN ret.allowlist :
          \E b \in DOMAIN CountMap(mdata)[ip] :
              /\ b < ret.now - config.aggregation_time * config.param_w_train
              /\ CountMap(mdata)[ip][b] > ret.allowlist[ip]

(***************************************************************************)
(* main: one pool task per input file runs process_netflow_file, the       *)
(* results are merged in file order once every task has ended, and the     *)
(* allowlist is built from the merged map.                                 *)
(***************************************************************************)
Files == {1, 2}

\* the objects a file's decoder may emit
MainObjects ==
    LET v4 == [src4_addr |-> V4a, dst4_addr |-> Dst4]
        v4b == [src4_addr |-> V4b, dst4_addr |-> Dst4]
        v6 == [src6_addr |-> V6a, dst6_addr |-> Dst6]
    IN  { [first |-> 0, last |-> 0] @@ v4 @@ [in_packets |-> 2, dst_port |-> 53],
          [t_first |-> 1, t_last |-> 2] @@ v6 @@ [in_packets |-> 3, dst_port |-> 53],
          [first |-> 2, last |-> 3] @@ v4b @@ [in_packets |-> 3, dst_port |-> 53],
          [first |-> 0] @@ v4 @@ [in_packets |-> 1, dst_port |-> 53] }

MainConfigs == { Configuration(agg, 1, 1, 2) : agg \in {2, 3} }

InitMain ==
    /\ config \in MainConfigs
    /\ data = [n \in {Main} \cup Files |-> EmptyDict]
    /\ heap = EmptyDict
    /\ flow = [w \in Files |-> NoFlow]
    /\ pc = [w \in Files |-> "read"]
    /\ exc = [w \in Files |-> None]
    /\ nread = [w \in Files |-> 0]
    /\ mpc = "pool"
    /\ mdata = Main
    /\ args = EmptyDict
    /\ ret = EmptyDict
    /\ stream = EmptyDict
    /\ tasks = <<>>

\* ascending sequence of the elements of a set of numbers
RECURSIVE Ascending(_)
Ascending(S) ==
    IF S = {} THEN <<>>
    ELSE LET lo == CHOOSE x \in S : \A y \in S : x <= y
         IN  <<lo>> \o Ascending(S \ {lo})

\* results.get() that returns as soon as one task has ended
ResultsGetEarly ==
    /\ mpc = "pool"
    /\ \E w \in Workers : pc[w] \in {"done", "raised"}
    /\ IF \E w \in Workers : pc[w] = "raised"
       THEN mpc' = "raised" /\ UNCHANGED ret
       ELSE mpc' = "merge" /\ ret' = [results |-> Ascending(Workers)]
    /\ UNCHANGED <<config, data, heap, flow, pc, exc, nread, mdata, args,
                   stream, tasks>>

\* results.get(): returns the per-file dicts in file order once every task
\* has ended, or re-raises a task's exception
ResultsGet ==
    /\ mpc = "pool"
    /\ \A w \in Workers : pc[w] \in {"done", "raised"}
    /\ IF \E w \in Workers : pc[w] = "raised"
       THEN mpc' = "raised" /\ UNCHANGED ret
       ELSE mpc' = "merge" /\ ret' = [results |-> Ascending(Workers)]
    /\ UNCHANGED <<config, data, heap, flow, pc, exc, nread, mdata, args,
                 stream, tasks>>

\* for new_data in results.get(): data = merge_data(data, new_data)
MergeResult ==
    /\ mpc = "merge"
    /\ ret.results # <<>>
    /\ LET r == merge_data([data |-> data, heap |-> heap], mdata, Head(ret.results))
       IN  /\ data' = r.st.data
           /\ heap' = r.st.heap
           /\ mdata' = r.ret
    /\ ret' = [results |-> Tail(ret.results)]
    /\ UNCHANGED <<config, flow, pc, exc, nread, mpc, args,
                 stream, tasks>>

\* the loop over the results ends
MergeDone ==
    /\ mpc = "merge"
    /\ ret.results = <<>>
    /\ mpc' = "allowlist"
    /\ UNCHANGED <<config, data, heap, flow, pc, exc, nread, mdata, args, ret,
                 stream, tasks>>

NextMain ==
    \/ \E w \in Workers, d \in MainObjects : ReadObject(w, d)
    \/ \E w \in Workers : AggregateFlow(w)
    \/ \E w \in Workers : EndOfStream(w)
    \/ ResultsGet
    \/ MergeResult
    \/ MergeDone
    \/ \E now \in 0..MaxNow : BuildAllowlist(now)

SpecMain == InitMain /\ [][NextMain]_vars

\* C7: every bucket key of every inner dict is a multiple of aggregation_time.
C7_BucketsAligned ==
    \A name \in DOMAIN data : \A k \in DOMAIN data[name] :
        \A bucket \in DOMAIN heap[data[name][k]] :
            bucket % config.aggregation_time = 0

\* C7 witness: both files' maps were merged, and a source of the merged map
\* holds buckets that records of both files and a multi-bucket record filled.
C7_Witness ==
    /\ mpc = "allowlist"
    /\ \A w \in Workers : nread[w] >= 1 /\ DOMAIN data[w] # {}
    /\ \E k \in DOMAIN data[mdata] :
          /\ Cardinality(DOMAIN heap[data[mdata][k]]) >= 2
          /\ \E t \in DOMAIN heap[data[mdata][k]] : heap[data[mdata][k]][t] >= 4

(***************************************************************************)
(* The pool on given files: the objects each file's decoder emits are      *)
(* drawn, one task per file runs process_netflow_file on them, the tasks   *)
(* interleave freely and end in any order, and main merges the results.    *)
(***************************************************************************)
SeqsUpTo(S, n) == UNION { [1..m -> S] : m \in 0..n }

PoolObjects ==
    LET v4 == [src4_addr |-> V4a, dst4_addr |-> Dst4]
        v4b == [src4_addr |-> V4b, dst4_addr |-> Dst4]
        v6 == [src6_addr |-> V6a, dst6_addr |-> Dst6]
    IN  { [first |-> 0, last |-> 0] @@ v4 @@ [in_packets |-> 2, dst_port |-> 53],
          [first |-> 1, last |-> 2] @@ v4b @@ [in_packets |-> 3, dst_port |-> 53],
          [t_first |-> 0, t_last |-> 1] @@ v6 @@ [in_packets |-> 1, dst_port |-> 53] }

InitPool ==
    /\ config = Configuration(2, 1, 1, 1)
    /\ args \in { [files |-> Files, contents |-> c] :
                    c \in [Files -> SeqsUpTo(PoolObjects, MaxFlows)] }
    /\ data = [n \in {Main} \cup Files |-> EmptyDict]
    /\ heap = EmptyDict
    /\ flow = [w \in Files |-> NoFlow]
    /\ pc = [w \in Files |-> "read"]
    /\ exc = [w \in Files |-> None]
    /\ nread = [w \in Files |-> 0]
    /\ mpc = "pool"
    /\ mdata = Main
    /\ ret = EmptyDict
    /\ stream = EmptyDict
    /\ tasks = <<>>

\* `for flow in g` on the next object of the task's file
TaskRead(w) ==
    /\ nread[w] < Len(args.contents[w])
    /\ ReadObject(w, args.contents[w][nread[w] + 1])

\* the decoder's output ends: process_netflow_file returns data and the
\* task's result arrives at the pool
TaskReturn(w) ==
    /\ pc[w] = "read"
    /\ nread[w] = Len(args.contents[w])
    /\ pc' = [pc EXCEPT ![w] = "done"]
    /\ tasks' = Append(tasks, w)
    /\ UNCHANGED <<config, data, heap, flow, exc, nread, mpc, mdata, args, ret,
                   stream>>

NextPool ==
    \/ \E w \in Workers : TaskRead(w)
    \/ \E w \in Workers : AggregateFlow(w)
    \/ \E w \in Workers : TaskReturn(w)
    \/ ResultsGet
    \/ MergeResult
    \/ MergeDone

SpecPool == InitPool /\ [][NextPool]_vars

\* process_netflow_file run on its own: the store after folding the objects
\* of one file into the dict `name`
RECURSIVE process_netflow_file(_, _, _, _)
process_netflow_file(st, name, cfg, objects) ==
    IF objects = <<>> THEN st
    ELSE LET r == from_dict(Head(objects))
             st1 == IF stream_filter(r.flow, cfg)
                    THEN aggregate_flows(st, name, cfg, r.flow).st
                    ELSE st
         IN  process_netflow_file(st1, name, cfg, Tail(objects))

RECURSIVE MergeAll(_, _, _)
MergeAll(st, into, names) ==
    IF names = <<>> THEN CountMapOf(st.data, st.heap, into)
    ELSE LET r == merge_data(st, into, Head(names))
         IN  MergeAll(r.st, r.ret, Tail(names))

RECURSIVE RunAll(_, _, _, _)
RunAll(st, cfg, contents, names) ==
    IF names = <<>> THEN st
    ELSE RunAll(process_netflow_file(st, Head(names), cfg, contents[Head(names)]),
                cfg, contents, Tail(names))

\* the merged map of the run in which the tasks run one after the other, in
\* file order
SequentialRun(cfg, contents) ==
    LET names == Ascending(DOMAIN contents)
        st0 == [ data |-> [n \in {Main} \cup DOMAIN contents |-> EmptyDict],
                 heap |-> EmptyDict ]
    IN  MergeAll(RunAll(st0, cfg, contents, names), Main, names)

\* C11: the map main passes to build_allowlist depends on the files only:
\* whatever the interleaving of the tasks and the order in which they end, it
\* is the map of the run in which the tasks run one after the other.
C11_CompletionOrderIndependent ==
    mpc = "allowlist" => CountMap(mdata) = SequentialRun(config, args.contents)

\* C11 witness: the task of the second file ended before the task of the
\* first, both files held records, and their counts met in one bucket.
C11_Witness ==
    /\ mpc = "allowlist"
    /\ tasks = <<2, 1>>
    /\ \A w \in Workers : Len(args.contents[w]) >= 1 /\ DOMAIN data[w] # {}
    /\ \E k \in DOMAIN data[mdata] :
          \E t \in DOMAIN heap[data[mdata][k]] : heap[data[mdata][k]][t] >= 4

(***************************************************************************)
(* main from the command line on: parse_args, the configuration document,  *)
(* the pool, the merge loop, build_allowlist and the output.  A command    *)
(* line is a function whose DOMAIN holds "config", "now" and "output" only *)
(* if the option was given.  For each file the decoder subprocess emits    *)
(* objects, then closes the array or ends without closing it, and exits    *)
(* with a status.                                                          *)
(***************************************************************************)
ConfigurationDefaults == Configuration(3600, 24, 3, 128)

\* Configuration.from_dict: the fields of the document, defaults elsewhere
Configuration_from_dict(config_dict) ==
    [k \in DOMAIN ConfigurationDefaults |->
        IF k \in DOMAIN config_dict THEN config_dict[k] ELSE ConfigurationDefaults[k]]

NumericFields ==
    { "aggregation_time", "ipv4_aggregation", "ipv6_aggregation",
      "param_w_train", "param_steady", "param_heavy" }

CliConfigDocs ==
    LET base == [aggregation_time |-> 2, param_w_train |-> 1,
                 param_steady |-> 1, param_heavy |-> 1]
    IN  { EmptyDict,
          base,
          [param_steady |-> 0] @@ base,
          [param_w_train |-> -1, param_heavy |-> 0] @@ base }

CliContents ==
    LET v4 == [src4_addr |-> V4a, dst4_addr |-> Dst4]
        good == [first |-> 0, last |-> 1] @@ v4 @@ [in_packets |-> 2, dst_port |-> 53]
        mixed == [first |-> 0, last |-> 1] @@ [src4_addr |-> V4a, dst6_addr |-> Dst6]
                     @@ [in_packets |-> 2, dst_port |-> 53]
        nolast == [first |-> 0] @@ v4 @@ [in_packets |-> 2, dst_port |-> 53]
    IN  { <<>>, <<good>>, <<good, mixed>>, <<nolast>> }

\* what the decoder subprocess of one file does
DecoderRuns ==
    { [objects |-> c, closed |-> TRUE, status |-> 0] : c \in CliContents }
      \cup { [objects |-> c, closed |-> b, status |-> 1] :
                c \in CliContents, b \in BOOLEAN }

CommandLines ==
    { opt[1] @@ opt[2] @@ opt[3] @@ [files |-> DOMAIN d,
                                     contents |-> [f \in DOMAIN d |-> d[f].objects],
                                     closed |-> [f \in DOMAIN d |-> d[f].closed],
                                     status |-> [f \in DOMAIN d |-> d[f].status]] :
        opt \in ({EmptyDict} \cup { [config |-> doc] : doc \in CliConfigDocs })
                  \X {EmptyDict, [now |-> 2]}
                  \X {EmptyDict, [output |-> "-"]},
        d \in UNION { [fs -> DecoderRuns] : fs \in {{}, {1}, Files} } }

InitCli ==
    /\ args \in CommandLines
    /\ config = EmptyDict
    /\ data = EmptyDict
    /\ heap = EmptyDict
    /\ flow = EmptyDict /\ pc = EmptyDict /\ exc = EmptyDict /\ nread = EmptyDict
    /\ mpc = "args"
    /\ mdata = Main
    /\ ret = EmptyDict
    /\ stream = EmptyDict
    /\ tasks = <<>>

\* args = init_argparse().parse_args(): FILES has nargs="+", so an empty
\* list of files is a usage error (SystemExit 2)
ParseArgs ==
    /\ mpc = "args"
    /\ mpc' = IF args.files = {} THEN "exit2" ELSE "config"
    /\ UNCHANGED <<config, data, heap, flow, pc, exc, nread, mdata, args, ret,
                   stream, tasks>>

\* config = Configuration.from_dict(json.load(args.config)) or Configuration()
LoadConfig ==
    /\ mpc = "config"
    /\ config' = IF "config" \in DOMAIN args
                 THEN Configuration_from_dict(args.config)
                 ELSE ConfigurationDefaults
    /\ mpc' = "start"
    /\ UNCHANGED <<data, heap, flow, pc, exc, nread, mdata, args, ret,
                   stream, tasks>>

\* data = {} and pool.starmap_async: one task per file
StartPool ==
    /\ mpc = "start"
    /\ data' = [n \in {Main} \cup args.files |-> EmptyDict]
    /\ flow' = [w \in args.files |-> NoFlow]
    /\ pc' = [w \in args.files |-> "read"]
    /\ exc' = [w \in args.files |-> None]
    /\ nread' = [w \in args.files |-> 0]
    /\ mpc' = "pool"
    /\ UNCHANGED <<config, heap, mdata, args, ret, stream, tasks>>

\* the decoder closed the array: the task returns its dict
TaskClosed(w) == args.closed[w] /\ TaskReturn(w)

\* the decoder's output ends without the closing line: json.loads of the
\* empty rest raises
TaskEOF(w) ==
    /\ ~args.closed[w]
    /\ pc[w] = "read"
    /\ nread[w] = Len(args.contents[w])
    /\ pc' = [pc EXCEPT ![w] = "raised"]
    /\ exc' = [exc EXCEPT ![w] = "JSONDecodeError"]
    /\ UNCHANGED <<config, data, heap, flow, nread, mpc, mdata, args, ret,
                   stream, tasks>>

\* build_allowlist(data, config, optional_datetime(args.now).timestamp())
\* with -n given
BuildWithNow == "now" \in DOMAIN args /\ BuildAllowlist(args.now)

\* without -n: optional_datetime(None) is None, and None.timestamp() raises
BuildWithoutNow ==
    /\ mpc = "allowlist"
    /\ "now" \notin DOMAIN args
    /\ ret' = [exc |-> "AttributeError"]
    /\ mpc' = "raised"
    /\ UNCHANGED <<config, data, heap, flow, pc, exc, nread, mdata, args,
                   stream, tasks>>

\* print the summary, or write_allowlist_as_csv to stdout
Output ==
    /\ mpc = "output"
    /\ ret' = [ stdout |-> IF "output" \notin DOMAIN args
                           THEN <<"The allowlist contains",
                                  Cardinality(DOMAIN ret.allowlist), "entries.">>
                           ELSE <<"ip,packets", ret.allowlist>> ] @@ ret
    /\ mpc' = "exit0"
    /\ UNCHANGED <<config, data, heap, flow, pc, exc, nread, mdata, args,
                   stream, tasks>>

NextCli ==
    \/ ParseArgs
    \/ LoadConfig
    \/ StartPool
    \/ \E w \in Workers : TaskRead(w)
    \/ \E w \in Workers : AggregateFlow(w)
    \/ \E w \in Workers : TaskClosed(w)
    \/ \E w \in Workers : TaskEOF(w)
    \/ ResultsGet
    \/ MergeResult
    \/ MergeDone
    \/ BuildWithNow
    \/ BuildWithoutNow
    \/ Output

SpecCli == InitCli /\ [][NextCli]_vars

\* a malformed record: no first timestamp, no last timestamp, or neither a
\* complete IPv4 pair nor a complete IPv6 pair
Malformed(d) ==
    \/ "first" \notin DOMAIN d /\ "t_first" \notin DOMAIN d
    \/ "last" \notin DOMAIN d /\ "t_last" \notin DOMAIN d
    \/ /\ ~({"src4_addr", "dst4_addr"} \subseteq DOMAIN d)
       /\ ~({"src6_addr", "dst6_addr"} \subseteq DOMAIN d)

\* processing of file w fails: its decoder exits with a nonzero status, its
\* output ends early, or it holds a malformed record
FileFails(w) ==
    \/ args.status[w] # 0
    \/ ~args.closed[w]
    \/ \E i \in 1..Len(args.contents[w]) : Malformed(args.contents[w][i])

\* C12: if the processing of any input file fails (decoder failure, output
\* that ends early, a malformed record), nothing is ever written: neither the
\* CSV nor the summary.
C12_FailureAbortsRun ==
    (\E w \in args.files : FileFails(w)) => "stdout" \notin DOMAIN ret

\* C17: a configuration document with a zero or negative numeric parameter
\* is rejected before the pool is started: main never gets past the loading
\* of the configuration and no task exists.
C17_BadConfigRejected ==
    ( /\ "config" \in DOMAIN args
      /\ \E k \in NumericFields \cap DOMAIN args.config : args.config[k] <= 0 )
    => (mpc \in {"args", "config", "exit2"} /\ DOMAIN pc = {})

\* C18: a run with zero input files does not end in an error, and a run
\* without -o whose allowlist is empty prints the summary with 0 entries.
C18_EmptyResultSucceeds ==
    /\ args.files = {} => mpc \notin {"exit2", "raised"}
    /\ ( /\ mpc = "exit0"
         /\ "output" \notin DOMAIN args
         /\ DOMAIN ret.allowlist = {} )
       => ret.stdout = <<"The allowlist contains", 0, "entries.">>

(***************************************************************************)
(* stream_filter as a generator over a drawn stream of records, for        *)
(* configurations with IPv4 and IPv6 protected prefixes.                   *)
(***************************************************************************)
Net4 == [addr |-> <<4, <<203, 0, 113, 0>>>>, prefixlen |-> 24]
Net4b == [addr |-> <<4, <<198, 51, 100, 128>>>>, prefixlen |-> 25]
Net6 == [addr |-> <<6, <<8193, 3512, 0, 0, 0, 0, 0, 0>>>>, prefixlen |-> 32]

FilterConfigs ==
    { [Configuration(2, 1, 1, 1) EXCEPT !.destination_addresses = nets] :
        nets \in SUBSET {Net4, Net4b, Net6} }

\* records to 203.0.113.1, 203.0.114.1, 198.51.100.200, 198.51.100.100,
\* 2001:db8::1 and 2001:db9::1, to port 53 or 443
FilterFlows ==
    { NfFlow(1, port, 0, 0, V4a, dst) :
        port \in {53, 443},
        dst \in { Dst4, <<4, <<203, 0, 114, 1>>>>,
                  <<4, <<198, 51, 100, 200>>>>, <<4, <<198, 51, 100, 100>>>>,
                  Dst6, <<6, <<8193, 3513, 0, 0, 0, 0, 0, 1>>>> } }

InitFilter ==
    /\ config \in FilterConfigs
    /\ args \in { [stream |-> g] : g \in SeqsUpTo(FilterFlows, MaxFlows) }
    /\ data = EmptyDict
    /\ heap = EmptyDict
    /\ flow = EmptyDict /\ pc = EmptyDict /\ exc = EmptyDict /\ nread = EmptyDict
    /\ mpc = "filter"
    /\ mdata = Main
    /\ ret = [consumed |-> 0, yielded |-> <<>>]
    /\ stream = EmptyDict
    /\ tasks = <<>>

\* one turn of `for flow in stream`: the record is yielded or dropped
FilterNext ==
    /\ mpc = "filter"
    /\ ret.consumed < Len(args.stream)
    /\ LET f == args.stream[ret.consumed + 1]
       IN  ret' = [ consumed |-> ret.consumed + 1,
                    yielded |-> IF stream_filter(f, config)
                                THEN Append(ret.yielded, f)
                                ELSE ret.yielded ]
    /\ UNCHANGED <<config, data, heap, flow, pc, exc, nread, mpc, mdata, args,
                   stream, tasks>>

\* the stream is exhausted: the generator ends
FilterEnd ==
    /\ mpc = "filter"
    /\ ret.consumed = Len(args.stream)
    /\ mpc' = "filtered"
    /\ UNCHANGED <<config, data, heap, flow, pc, exc, nread, mdata, args, ret,
                   stream, tasks>>

NextFilter == FilterNext \/ FilterEnd

SpecFilter == InitFilter /\ [][NextFilter]_vars

\* bit i (0 = most significant) of an address
AddrBit(addr, i) ==
    LET gb == GroupBits(addr[1])
    IN  (addr[2][(i \div gb) + 1] \div Pow2(gb - 1 - (i % gb))) % 2

\* the address is of the prefix's family and agrees with it on its first
\* prefixlen bits
InPrefix(addr, net) ==
    /\ addr[1] = net.addr[1]
    /\ \A i \in 0..(net.prefixlen - 1) : AddrBit(addr, i) = AddrBit(net.addr, i)

\* C13: the records yielded so far are exactly the consumed records with
\* dst_port 53 whose destination lies in a protected prefix of its own
\* family, in the order of the input.
C13_FilterKeepsDnsToProtected ==
    LET Keep(f) == /\ f.dst_port = 53
                   /\ \E net \in config.destination_addresses : InPrefix(f.dst_addr, net)
    IN  ret.yielded = SelectSeq(SubSeq(args.stream, 1, ret.consumed), Keep)

\* C13 witness: the generator ended after it yielded an IPv6 record and
\* dropped an IPv4 record to port 53, with IPv6 prefixes only configured.
C13_Witness ==
    /\ mpc = "filtered"
    /\ config.destination_addresses = {Net6}
    /\ Len(ret.yielded) = 1
    /\ \E i \in 1..Len(args.stream) :
          args.stream[i].dst_port = 53 /\ args.stream[i].dst_addr[1] = 4

(***************************************************************************)
(* NfFlow.from_dict on one object: every combination of present and absent *)
(* timestamp and address fields.                                           *)
(***************************************************************************)
\* the objects holding the given optional fields, out of `all`
FieldCombinations(all) == { [k \in ks |-> all[k]] : ks \in SUBSET DOMAIN all }

DecodeObjects ==
    { t @@ a @@ [in_packets |-> 2, dst_port |-> 53] :
        t \in FieldCombinations([first |-> 0, t_first |-> 1, last |-> 2, t_last |-> 3]),
        a \in FieldCombinations([src4_addr |-> V4a, dst4_addr |-> Dst4,
                                 src6_addr |-> V6a, dst6_addr |-> Dst6]) }

InitDecode ==
    /\ config = ConfigurationDefaults
    /\ args \in { [d |-> d] : d \in DecodeObjects }
    /\ data = EmptyDict
    /\ heap = EmptyDict
    /\ flow = EmptyDict /\ pc = EmptyDict /\ exc = EmptyDict /\ nread = EmptyDict
    /\ mpc = "decode"
    /\ mdata = Main
    /\ ret = EmptyDict
    /\ stream = EmptyDict
    /\ tasks = <<>>

\* yield NfFlow.from_dict(d)
DecodeObject ==
    /\ mpc = "decode"
    /\ ret' = from_dict(args.d)
    /\ mpc' = IF from_dict(args.d).exc = None THEN "decoded" ELSE "raised"
    /\ UNCHANGED <<config, data, heap, flow, pc, exc, nread, mdata, args,
                   stream, tasks>>

NextDecode == DecodeObject

SpecDecode == InitDecode /\ [][NextDecode]_vars

\* C14: from_dict raises on every object without a first timestamp, without
\* a last timestamp, or with neither a complete IPv4 pair nor a complete IPv6
\* pair, and returns a record for every other object, whichever of the two
\* timestamp namings it uses.
C14_DecoderRejectsIncomplete ==
    mpc # "decode" => (ret.exc # None <=> Malformed(args.d))

(***************************************************************************)
(* build_allowlist called twice on one CountMap and reference time: with   *)
(* the configuration, and with one of param_heavy and param_steady         *)
(* changed.                                                                *)
(***************************************************************************)
\* one source with any buckets, alone or next to a second source
ParamMaps ==
    LET k1 == network_address(V4a, 24)
        k2 == network_address(V6a, 48)
    IN  {EmptyDict}
          \cup { [k \in {k1} |-> d] : d \in AllowInner(AllowTimes) }
          \cup { [k \in {k1, k2} |-> IF k = k1 THEN d ELSE [t \in {0} |-> 1]] :
                    d \in AllowInner(AllowTimes) }

SteadyValues == {0, 1, 2}

HeavyValues == {1, 2, 3}

ParamConfigs ==
    { Configuration(2, w, s, h) : w \in {1, 2}, s \in SteadyValues, h \in HeavyValues }

InitParams ==
    /\ config \in ParamConfigs
    /\ args \in [{Main} -> ParamMaps]
    /\ LET st == StoreOf(args)
       IN  data = st.data /\ heap = st.heap
    /\ flow = EmptyDict /\ pc = EmptyDict /\ exc = EmptyDict /\ nread = EmptyDict
    /\ mpc = "allowlist"
    /\ mdata = Main
    /\ ret = EmptyDict
    /\ stream = EmptyDict
    /\ tasks = <<>>

\* build_allowlist(data, config2, now) for the same data and now, config2
\* being config with `field` set to `value`
BuildAgain(field, value) ==
    /\ mpc \in {"output", "raised"}
    /\ LET config2 == [config EXCEPT ![field] = value]
           r == build_allowlist(CountMap(mdata), config2, ret.now)
       IN  ret' = [field |-> field, value |-> value,
                   exc2 |-> r.exc, allowlist2 |-> r.allowlist] @@ ret
    /\ mpc' = "rebuilt"
    /\ UNCHANGED <<config, data, heap, flow, pc, exc, nread, mdata, args,
                   stream, tasks>>

NextParams ==
    \/ \E now \in 0..MaxNow : BuildAllowlist(now)
    \/ \E h \in HeavyValues : BuildAgain("param_heavy", h)
    \/ \E s \in SteadyValues : BuildAgain("param_steady", s)

SpecParams == InitParams /\ [][NextParams]_vars

\* C15: of two calls that differ in param_heavy only, the one with the
\* larger param_heavy returns a key set that is a subset of the other's.
C15_HeavyMonotone ==
    (mpc = "rebuilt" /\ ret.field = "param_heavy" /\ ret.exc = None /\ ret.exc2 = None)
    => /\ config.param_heavy <= ret.value
            => DOMAIN ret.allowlist2 \subseteq DOMAIN ret.allowlist
       /\ ret.value <= config.param_heavy
            => DOMAIN ret.allowlist \subseteq DOMAIN ret.allowlist2

\* C15 witness: raising param_heavy removed a listed source.
C15_Witness ==
    /\ mpc = "rebuilt" /\ ret.field = "param_heavy"
    /\ ret.exc = None /\ ret.exc2 = None
    /\ config.param_heavy < ret.value
    /\ DOMAIN ret.allowlist2 # DOMAIN ret.allowlist
    /\ DOMAIN ret.allowlist2 # {}

\* C16: of two calls that differ in param_steady only, both return, and the
\* one with the larger param_steady returns a key set that is a subset of the
\* other's.
C16_SteadyMonotone ==
    (mpc = "rebuilt" /\ ret.field = "param_steady")
    => /\ ret.exc = None /\ ret.exc2 = None
       /\ config.param_steady <= ret.value
            => DOMAIN ret.allowlist2 \subseteq DOMAIN ret.allowlist
       /\ ret.value <= config.param_steady
            => DOMAIN ret.allowlist \subseteq DOMAIN ret.allowlist2

(***************************************************************************)
(* stream_read_json on the bytes of one decoder output.  Bytes are         *)
(* one-character strings; the text of an object is "{", white space, one   *)
(* letter standing for its fields, white space, "}".  The pipe is buffered *)
(* (Popen with bufsize > 0), so read(n) returns n bytes until the end of   *)
(* the output.                                                             *)
(***************************************************************************)
Whitespace == {" ", "\n"}

\* bytes.find(delim) + 1 for a one-byte delim: 0 if absent
Find(bytes, delim) ==
    IF \E i \in 1..Len(bytes) : bytes[i] = delim
    THEN CHOOSE i \in 1..Len(bytes) :
            bytes[i] = delim /\ \A j \in 1..(i - 1) : bytes[j] # delim
    ELSE 0

\* the `while True` loop of readuntil: f is what is left in the pipe,
\* datalist the bytes gathered so far
RECURSIVE ReadLoop(_, _, _)
ReadLoop(f, datalist, delim) ==
    LET n == IF Len(f) < ChunkSize THEN Len(f) ELSE ChunkSize
        chunk == SubSeq(f, 1, n)
        rest == SubSeq(f, n + 1, Len(f))
        i == Find(chunk, delim)
    IN  IF i # 0
        THEN [ data |-> datalist \o SubSeq(chunk, 1, i),
               chunk |-> SubSeq(chunk, i + 1, Len(chunk)), f |-> rest ]
        ELSE IF Len(chunk) < ChunkSize
        THEN [ data |-> datalist \o chunk, chunk |-> chunk, f |-> rest ]
        ELSE ReadLoop(rest, datalist \o chunk, delim)

readuntil(f, chunk, delim) ==
    LET i == Find(chunk, delim)
    IN  IF i # 0
        THEN [ data |-> SubSeq(chunk, 1, i),
               chunk |-> SubSeq(chunk, i + 1, Len(chunk)), f |-> f ]
        ELSE ReadLoop(f, chunk, delim)

\* the objects the letters stand for
JsonObjectOf ==
    [ a |-> [first |-> 0, last |-> 1] @@ [src4_addr |-> V4a, dst4_addr |-> Dst4]
                @@ [in_packets |-> 2, dst_port |-> 53],
      b |-> [t_first |-> 1, t_last |-> 2] @@ [src6_addr |-> V6a, dst6_addr |-> Dst6]
                @@ [in_packets |-> 3, dst_port |-> 53] ]

\* json.loads: white space around the document is skipped; anything but one
\* object raises JSONDecodeError
json_loads(bytes) ==
    LET NotSpace(c) == c \notin Whitespace
        text == SelectSeq(bytes, NotSpace)
    IN  IF /\ Len(text) = 3
           /\ text[1] = "{" /\ text[3] = "}"
           /\ text[2] \in DOMAIN JsonObjectOf
        THEN [ exc |-> None, d |-> JsonObjectOf[text[2]] ]
        ELSE [ exc |-> "JSONDecodeError", d |-> EmptyDict ]

RECURSIVE Concat(_)
Concat(seqs) == IF seqs = <<>> THEN <<>> ELSE Head(seqs) \o Concat(Tail(seqs))

\* the pretty-printed text of an object, indented by pad spaces
ObjectText(letter, pad) ==
    <<"{", "\n">> \o [i \in 1..pad |-> " "] \o <<letter, "\n", "}">>

\* "[", the objects with sep between them, then pre and the line "]"
DecoderOutput(letters, sep, pre, pad) ==
    <<"[", "\n">>
      \o Concat([i \in 1..Len(letters) |->
                    (IF i = 1 THEN <<>> ELSE sep) \o ObjectText(letters[i], pad)])
      \o pre \o <<"]", "\n">>

Separators == { <<",", "\n">>, <<"\n">>, <<" ", "\n">>, <<"\n", "\n">> }

BeforeClosing == { <<>>, <<"\n">>, <<" ", "\n">> }

InitStream ==
    /\ config = ConfigurationDefaults
    /\ args \in { [ objects |-> letters, pre |-> pre,
                    output |-> DecoderOutput(letters, sep, pre, pad) ] :
                    letters \in SeqsUpTo(DOMAIN JsonObjectOf, MaxFlows),
                    sep \in Separators, pre \in BeforeClosing, pad \in 0..2 }
    /\ stream = [f |-> args.output, chunk |-> <<>>, yielded |-> <<>>]
    /\ data = EmptyDict
    /\ heap = EmptyDict
    /\ flow = [w \in {1} |-> NoFlow]
    /\ pc = [w \in {1} |-> "read"]
    /\ exc = [w \in {1} |-> None]
    /\ nread = [w \in {1} |-> 0]
    /\ mpc = "pool"
    /\ mdata = Main
    /\ ret = EmptyDict
    /\ tasks = <<>>

\* one turn of the `while True` loop of stream_read_json: it returns at a
\* line starting with "]", yields a record, or raises
StreamNext(w) ==
    /\ pc[w] = "read"
    /\ LET l == readuntil(stream.f, stream.chunk, "\n")
           line == l.data
           buf == IF line # <<>> /\ line[1] = "{" THEN line ELSE <<>>
           o == readuntil(l.f, l.chunk, "}")
           j == json_loads(buf \o o.data)
           r == from_dict(j.d)
       IN  IF line # <<>> /\ line[1] = "]"
           THEN /\ pc' = [pc EXCEPT ![w] = "done"]
                /\ stream' = [stream EXCEPT !.f = l.f, !.chunk = l.chunk]
                /\ UNCHANGED <<exc, flow, nread>>
           ELSE IF j.exc # None
           THEN /\ pc' = [pc EXCEPT ![w] = "raised"]
                /\ exc' = [exc EXCEPT ![w] = j.exc]
                /\ stream' = [stream EXCEPT !.f = o.f, !.chunk = o.chunk]
                /\ UNCHANGED <<flow, nread>>
           ELSE IF r.exc # None
           THEN /\ pc' = [pc EXCEPT ![w] = "raised"]
                /\ exc' = [exc EXCEPT ![w] = r.exc]
                /\ stream' = [stream EXCEPT !.f = o.f, !.chunk = o.chunk]
                /\ UNCHANGED <<flow, nread>>
           ELSE /\ stream' = [f |-> o.f, chunk |-> o.chunk,
                              yielded |-> Append(stream.yielded, r.flow)]
                /\ flow' = [flow EXCEPT ![w] = r.flow]
                /\ nread' = [nread EXCEPT ![w] = @ + 1]
                /\ UNCHANGED <<pc, exc>>
    /\ UNCHANGED <<config, data, heap, mpc, mdata, args, ret, tasks>>

NextStream == \E w \in Workers : StreamNext(w)

SpecStream == InitStream /\ [][NextStream]_vars

\* the records of the objects of the output, in order
RecordsOf(letters) == [i \in 1..Len(letters) |-> from_dict(JsonObjectOf[letters[i]]).flow]

\* the closing "]" starts a line of the output
ClosingStartsLine == args.pre = <<>> => args.objects = <<>>

\* C19: on an output made of a "[" line, k >= 0 objects separated by white
\* space and newlines, and a line that starts with "]", stream_read_json
\* never raises, yields the records of the objects in order, and has yielded
\* all k of them when it ends.
C19_StreamYieldsAllThenEnds ==
    ClosingStartsLine =>
        \A w \in Workers :
            /\ pc[w] # "raised"
            /\ stream.yielded = SubSeq(RecordsOf(args.objects), 1, nread[w])
            /\ pc[w] = "done" => nread[w] = Len(args.objects)

(***************************************************************************)
(* The reduce step over a partition: accepted records are dealt into three *)
(* files, each pool task folds its file into its own dict in one step (a   *)
(* task is a process of its own, so nothing else sees its dict while it    *)
(* runs), and main folds merge_data over the results in the order of the   *)
(* files on the command line.  File i is the i-th file of the command      *)
(* line; every assignment of contents to the files is drawn, so every      *)
(* order of the same files is among the runs.                              *)
(***************************************************************************)
FoldFiles == {1, 2, 3}

\* records that from_dict decodes, stream_filter passes and aggregate_flows
\* completes on: a multi-bucket one, a single-bucket one of the same /24,
\* and one of another address family
FoldObjects ==
    LET v4 == [src4_addr |-> V4a, dst4_addr |-> Dst4]
        v4b == [src4_addr |-> V4b, dst4_addr |-> Dst4]
        v6 == [src6_addr |-> V6a, dst6_addr |-> Dst6]
    IN  { [first |-> 1, last |-> 2] @@ v4 @@ [in_packets |-> 3, dst_port |-> 53],
          [first |-> 0, last |-> 0] @@ v4b @@ [in_packets |-> 2, dst_port |-> 53],
          [t_first |-> 2, t_last |-> 3] @@ v6 @@ [in_packets |-> 1, dst_port |-> 53] }

InitFold ==
    /\ config = Configuration(2, 1, 1, 1)
    /\ args \in { [files |-> FoldFiles, contents |-> c] :
                    c \in { p \in [FoldFiles -> SeqsUpTo(FoldObjects, MaxFlows)] :
                              DictSum([w \in FoldFiles |-> Len(p[w])]) <= MaxRecords } }
    /\ data = [n \in {Main} \cup FoldFiles |-> EmptyDict]
    /\ heap = EmptyDict
    /\ flow = [w \in FoldFiles |-> NoFlow]
    /\ pc = [w \in FoldFiles |-> "read"]
    /\ exc = [w \in FoldFiles |-> None]
    /\ nread = [w \in FoldFiles |-> 0]
    /\ mpc = "pool"
    /\ mdata = Main
    /\ ret = EmptyDict
    /\ stream = EmptyDict
    /\ tasks = <<>>

\* `for flow in g: aggregate_flows(data, config, flow)` run to its end or to
\* the first exception; n counts the objects read
RECURSIVE FlowLoop(_, _, _, _, _)
FlowLoop(st, name, cfg, objects, n) ==
    IF objects = <<>> THEN [ exc |-> None, st |-> st, n |-> n ]
    ELSE LET d == from_dict(Head(objects))
         IN  IF d.exc # None
             THEN [ exc |-> d.exc, st |-> st, n |-> n + 1 ]
             ELSE IF ~stream_filter(d.flow, cfg)
             THEN FlowLoop(st, name, cfg, Tail(objects), n + 1)
             ELSE LET r == aggregate_flows(st, name, cfg, d.flow)
                  IN  IF r.exc # None
                      THEN [ exc |-> r.exc, st |-> r.st, n |-> n + 1 ]
                      ELSE FlowLoop(r.st, name, cfg, Tail(objects), n + 1)

\* the pool task of file w: process_netflow_file(file, config) from its
\* first line to its return (or its exception)
TaskRun(w) ==
    /\ pc[w] = "read"
    /\ LET r == FlowLoop([data |-> data, heap |-> heap], w, config,
                         args.contents[w], 0)
       IN  /\ data' = r.st.data
           /\ heap' = r.st.heap
           /\ exc' = [exc EXCEPT ![w] = r.exc]
           /\ nread' = [nread EXCEPT ![w] = r.n]
           /\ pc' = [pc EXCEPT ![w] = IF r.exc = None THEN "done" ELSE "raised"]
    /\ tasks' = Append(tasks, w)
    /\ UNCHANGED <<config, flow, mpc, mdata, args, ret, stream>>

NextFold ==
    \/ \E w \in Workers : TaskRun(w)
    \/ ResultsGet
    \/ MergeResult
    \/ MergeDone

SpecFold == InitFold /\ [][NextFold]_vars

\* the CountMap of the loop of process_netflow_file run over `objects` in a
\* fresh dict
FreshMap(cfg, objects) ==
    LET st0 == [ data |-> [n \in {Main} |-> EmptyDict], heap |-> EmptyDict ]
        r == FlowLoop(st0, Main, cfg, objects, 0)
    IN  CountMapOf(r.st.data, r.st.heap, Main)

\* aggregate_flows over the records of all the files in one map
OneMap(cfg, contents) ==
    LET names == Ascending(DOMAIN contents)
    IN  FreshMap(cfg, Concat([i \in 1..Len(names) |-> contents[names[i]]]))

\* C22: when the merge loop has ended, the map main holds is the map that
\* aggregate_flows builds from the records of all the files in one dict, and
\* each of its (source key, bucket) counts is the sum of the counts the files
\* hold on their own: merge_data loses no count and adds none twice.
C22_MergeFoldEqualsOneMap ==
    mpc = "allowlist" =>
        LET merged == CountMap(mdata)
            per == [w \in Workers |-> FreshMap(config, args.contents[w])]
            count(w, k, t) == DictGet(DictGet(per[w], k, EmptyDict), t, 0)
        IN  /\ merged = OneMap(config, args.contents)
            /\ DOMAIN merged = UNION { DOMAIN per[w] : w \in Workers }
            /\ \A k \in DOMAIN merged :
                  /\ DOMAIN merged[k] =
                        UNION { DOMAIN DictGet(per[w], k, EmptyDict) : w \in Workers }
                  /\ \A t \in DOMAIN merged[k] :
                        merged[k][t] = DictSum([w \in Workers |-> count(w, k, t)])

\* C22 witness: the merge loop ended with all three files holding records;
\* merge_data swapped its arguments, so the map returned is a file's dict; it
\* holds an inner dict that another file's task created; and one bucket got
\* counts from two files.
C22_Witness ==
    /\ mpc = "allowlist"
    /\ mdata # Main
    /\ \A w \in Workers : args.contents[w] # <<>>
    /\ \E k \in DOMAIN data[mdata] : data[mdata][k][1] # mdata
    /\ \E k \in DOMAIN data[mdata] : \E t \in DOMAIN heap[data[mdata][k]] :
          \E v, w \in Workers :
              LET mv == FreshMap(config, args.contents[v])
                  mw == FreshMap(config, args.contents[w])
              IN  /\ v # w
                  /\ k \in DOMAIN mv /\ t \in DOMAIN mv[k]
                  /\ k \in DOMAIN mw /\ t \in DOMAIN mw[k]

====
